---- MODULE Spec2Model ----
(***************************************************************************)
(* A model of src/main.py: the application-level retry loop safe_request,  *)
(* the action handlers like_post / follow_user, the per-chunk worker pool  *)
(* of process_targets and the chunk loop of main.                          *)
(*                                                                         *)
(* Two entry points are modelled under Spec: main() (entry = "main") and a *)
(* direct call of process_targets (entry = "process_targets"), which is    *)
(* the only way to hand the pool more targets than it has workers, or an   *)
(* action name argparse would refuse.  RequestSpec is a direct call of     *)
(* safe_request with an explicit max_attempts, AnyEntrySpec any of the     *)
(* three.  LoadSpec is a call of load_targets_from_file on a small file,   *)
(* BackoffSpec a call of exponential_backoff_sleep with scaled arguments.  *)
(***************************************************************************)
EXTENDS Integers, Sequences, FiniteSets, TLC

VARIABLES
    entry,        \* which function of the module was called
    targets,      \* List[str]: the targets, here the distinct ids 1..K
    action,       \* args.action / the action argument
    concurrency,  \* args.concurrency / the concurrency argument
    dry_run,      \* args.dry_run / the dry_run argument
    pc,           \* position of the calling (main) thread
    chunk_start,  \* main: the loop variable of range(0, len(targets), concurrency)
    chunkNo,      \* main: the loop variable i of enumerate
    chunk,        \* process_targets: its targets argument
    ti,           \* process_targets: 1-based position of `for t in targets`
    futures,      \* process_targets: the futures list (task ids, submission order)
    results,      \* process_targets: the results list
    tasks,        \* one record per submitted call: the handler's and safe_request's locals
    errors,       \* process_targets: task exceptions the loop body has logged
    sleepCount,   \* history: inter-chunk sleeps finished
    submitted,    \* history: targets handed to ex.submit, in order
    batches,      \* history: what each process_targets call returned
    trace,        \* history: what session.request did in a directly called safe_request
    file,         \* load_targets_from_file: the lines of the file at `path`
    backoff       \* exponential_backoff_sleep: its arguments, its draw and its sleep

vars == <<entry, targets, action, concurrency, dry_run, pc, chunk_start, chunkNo,
          chunk, ti, futures, results, errors, tasks, sleepCount, submitted, batches,
          trace, file, backoff>>

\* What the stand-alone calls of load_targets_from_file and
\* exponential_backoff_sleep work on; no other function touches it.
helpers == <<file, backoff>>

inputs == <<entry, targets, action, concurrency, dry_run>>

(* ------------------------------ bounds -------------------------------- *)

MaxTargets == 3

MaxConcurrency == 2

MaxPoolTargets == 2

MaxAttempts == 5

MaxLines == 2

MaxLineLen == 3

MaxBase == 20

MaxBackoffAttempt == 4

MaxJitter == 12

(* ----------------------------- constants ------------------------------ *)

DefaultMaxAttempts == 5

RateLimitBase == 20

TransportBase == 10

None == 0

\* Statuses session.request may answer with: ok 2xx, ok non-2xx, client error,
\* the two rate-limit codes.
Statuses == {200, 304, 404, 420, 429}

Actions == {"like", "follow"}

(* --------------------------- pure helpers ----------------------------- *)

Min(a, b) == IF a < b THEN a ELSE b

\* `resp.status_code in (429, 420)`
\* Faulty variants: 420 forgotten; every error status retried.
IsRateLimitNot420(status) == status = 429

IsRateLimitAnyError(status) == status >= 400

IsRateLimit(status) == status \in {429, 420}

\* requests' Response.ok: raise_for_status() raises for 400 <= status < 600 only.
RespOk(status) == ~(400 <= status /\ status < 600)

\* `except requests.RequestException`: the only exceptions safe_request catches.
Exceptions == {"RequestException", "Other"}

\* Faulty variant: no except clause.
CaughtNothing(e) == FALSE

Caught(e) == e = "RequestException"

\* `if dry_run: ... return True`
\* Faulty variant: the dry_run flag ignored.
SimulatedNever(dry) == FALSE

Simulated(dry) == dry

\* `while attempt < max_attempts`
\* Faulty variant: `attempt <= max_attempts`.
LoopContinuesOffByOne(attempt, max) == attempt <= max

LoopContinues(attempt, max) == attempt < max

\* `if resp and resp.ok: return True` ... `return False`
\* Faulty variant: `if resp.ok` with no test of resp itself.
HandlerResultIgnoresNone(resp) == RespOk(resp)

HandlerResult(resp) == resp # None /\ RespOk(resp)

\* targets[chunk_start:chunk_start + args.concurrency]
\* Faulty variant: a slice one element short.
ChunkOfShort(ts, start, c) == SubSeq(ts, start + 1, Min(start + c - 1, Len(ts)))

ChunkOf(ts, start, c) == SubSeq(ts, start + 1, Min(start + c, Len(ts)))

(* ------------------------------ records ------------------------------- *)

NoTask ==
    [hpc |-> "unsubmitted", handler |-> "none", url |-> 0, chunk |-> 0,
     ret |-> FALSE, exc |-> "none",
     req |-> "idle", attempt |-> 0, max_attempts |-> 0, calls |-> 0,
     sleeps |-> 0, base |-> 0, battempt |-> 0, resp |-> None]

\* The loop head of safe_request, and `return None` below the loop.
EnterLoop(rec) ==
    IF LoopContinues(rec.attempt, rec.max_attempts)
    THEN [rec EXCEPT !.req = "attempting"]
    ELSE [rec EXCEPT !.req = "exhausted", !.resp = None]

\* safe_request(session, method, url, max_attempts): attempt = 0, loop head.
CallSafeRequest(rec, max) ==
    EnterLoop([rec EXCEPT !.attempt = 0, !.max_attempts = max, !.calls = 0,
                          !.sleeps = 0, !.resp = None])

\* safe_request's frame is popped when it returns to a handler: the handler
\* keeps the result (resp) and how the call ended, not the loop's locals.
PopFrame(rec) ==
    [rec EXCEPT !.attempt = 0, !.max_attempts = 0, !.calls = 0, !.sleeps = 0,
                !.base = 0, !.battempt = 0]

\* What the caller of safe_request does once it has returned or raised: a
\* handler turns the result into a boolean, and has no try/except of its own.
\* A direct caller (handler = "direct") just holds the finished call.
\* (FinishSwallows is the faulty variant with a bare `except: return False`,
\* FinishRaisesOnFailure the one that raises for a failed request.)
FinishRaisesOnFailure(rec) ==
    IF rec.handler = "direct" THEN rec
    ELSE IF rec.req = "raised" THEN [PopFrame(rec) EXCEPT !.hpc = "raised"]
    ELSE IF rec.req \in {"succeeded", "exhausted"}
         THEN IF HandlerResult(rec.resp)
              THEN [PopFrame(rec) EXCEPT !.hpc = "returned", !.ret = TRUE]
              ELSE [PopFrame(rec) EXCEPT !.hpc = "raised", !.exc = "Other"]
         ELSE rec

FinishSwallows(rec) ==
    IF rec.handler = "direct" THEN rec
    ELSE IF rec.req \in {"succeeded", "exhausted", "raised"}
         THEN [PopFrame(rec) EXCEPT !.hpc = "returned", !.ret = HandlerResult(rec.resp)]
         ELSE rec

Finish(rec) ==
    IF rec.handler = "direct" THEN rec
    ELSE IF rec.req = "raised" THEN [PopFrame(rec) EXCEPT !.hpc = "raised"]
    ELSE IF rec.req \in {"succeeded", "exhausted"}
         THEN [PopFrame(rec) EXCEPT !.hpc = "returned", !.ret = HandlerResult(rec.resp)]
         ELSE rec

(* --------------------------- safe_request ----------------------------- *)

\* exponential_backoff_sleep(base=base, attempt=attempt) is called: the loop
\* sleeps with the attempt counter as it stands, and adds 1 only afterwards.
\* Faulty variants: the counter incremented before the sleep; no sleep after
\* the last attempt.
BackoffCallAfterIncrement(rec, base) ==
    [rec EXCEPT !.req = "backing_off", !.base = base, !.battempt = rec.attempt + 1]

BackoffCallSkipsLast(rec, base) ==
    IF rec.attempt + 1 >= rec.max_attempts
    THEN [rec EXCEPT !.req = "exhausted", !.attempt = @ + 1, !.resp = None]
    ELSE [rec EXCEPT !.req = "backing_off", !.base = base, !.battempt = rec.attempt]

BackoffCall(rec, base) ==
    [rec EXCEPT !.req = "backing_off", !.base = base, !.battempt = rec.attempt]

\* What a directly called safe_request was answered, in order.
Traced(t, kind, s) ==
    IF tasks[t].handler = "direct"
    THEN Append(trace, [kind |-> kind, status |-> s])
    ELSE trace

\* session.request answered with status s.
Response(t, s) ==
    /\ tasks[t].req = "attempting"
    /\ tasks' = [tasks EXCEPT ![t] =
         IF IsRateLimit(s)
         THEN BackoffCall([@ EXCEPT !.calls = @ + 1], RateLimitBase)
         ELSE Finish([@ EXCEPT !.calls = @ + 1, !.req = "succeeded", !.resp = s])]
    /\ trace' = Traced(t, "response", s)

\* session.request raised e: a requests.RequestException is caught and backed
\* off from, anything else leaves safe_request.
Raised(t, e) ==
    /\ tasks[t].req = "attempting"
    /\ tasks' = [tasks EXCEPT ![t] =
         IF Caught(e)
         THEN BackoffCall([@ EXCEPT !.calls = @ + 1], TransportBase)
         ELSE Finish([@ EXCEPT !.calls = @ + 1, !.req = "raised", !.exc = e])]
    /\ trace' = Traced(t, e, None)

\* exponential_backoff_sleep returned: attempt += 1, back to the loop head.
BackoffDone(t) ==
    /\ tasks[t].req = "backing_off"
    /\ tasks' = [tasks EXCEPT ![t] =
         Finish(EnterLoop([@ EXCEPT !.sleeps = @ + 1, !.attempt = @ + 1,
                                    !.base = 0, !.battempt = 0]))]
    /\ UNCHANGED trace

Attempt(t) ==
    /\ \/ \E s \in Statuses : Response(t, s)
       \/ \E e \in Exceptions : Raised(t, e)
       \/ BackoffDone(t)
    /\ UNCHANGED <<helpers, inputs, pc, chunk_start, chunkNo, chunk, ti, futures, results, errors,
                   sleepCount, submitted, batches>>

(* ---------------------- like_post / follow_user ----------------------- *)

\* The handler's body up to its first blocking call.
RunHandler(t) ==
    /\ tasks[t].hpc = "running"
    /\ tasks[t].req = "idle"
    /\ tasks' = [tasks EXCEPT ![t] =
         IF Simulated(dry_run)
         THEN [@ EXCEPT !.hpc = "returned", !.ret = TRUE]
         ELSE Finish(CallSafeRequest(@, DefaultMaxAttempts))]
    /\ UNCHANGED <<helpers, inputs, pc, chunk_start, chunkNo, chunk, ti, futures, results, errors,
                   sleepCount, submitted, batches, trace>>

(* -------------------------- process_targets --------------------------- *)

Running == {t \in DOMAIN tasks : tasks[t].hpc = "running"}

\* ThreadPoolExecutor(max_workers=concurrency): a queued item is taken only by
\* one of at most max_workers threads.
\* (WorkerFreeAlways is the faulty variant of an unbounded pool.)
WorkerFreeAlways == TRUE

WorkerFree == Cardinality({t \in Running : tasks[t].chunk = chunkNo}) < concurrency

\* as_completed(futures) is exhausted and the `with` block has shut the pool down
\* (shutdown(wait=True)): every future is done and was handed to the loop body.
\* (PTMayReturnEarly is the faulty variant that does not wait for its tasks.)
PTMayReturnEarly == TRUE

PTMayReturn == \A k \in 1..Len(futures) : tasks[futures[k]].hpc = "collected"

\* `for t in targets:` one iteration.
HandlerFor(a) == IF a = "like" THEN "like_post" ELSE "follow_user"

\* The if/elif of the submit loop: only these two names have a branch, and
\* there is no else.  (HasHandlerAlways treats the elif as an else.)
HasHandlerAlways(a) == TRUE

HasHandler(a) == a \in Actions

Submit ==
    /\ pc = "submit"
    /\ ti <= Len(chunk)
    /\ LET id == chunk_start + ti IN
       \/ /\ HasHandler(action)
          /\ tasks' = [tasks EXCEPT ![id] =
                [NoTask EXCEPT !.hpc = "queued", !.handler = HandlerFor(action),
                               !.url = chunk[ti], !.chunk = chunkNo]]
          /\ futures' = Append(futures, id)
          /\ submitted' = Append(submitted, chunk[ti])
       \/ /\ ~HasHandler(action)
          /\ UNCHANGED <<tasks, futures, submitted>>
    /\ ti' = ti + 1
    /\ UNCHANGED <<helpers, inputs, pc, chunk_start, chunkNo, chunk, results, errors, sleepCount,
                   batches, trace>>

SubmitEnd ==
    /\ pc = "submit"
    /\ ti > Len(chunk)
    /\ pc' = "collect"
    /\ UNCHANGED <<helpers, inputs, chunk_start, chunkNo, chunk, ti, futures, results, errors, tasks,
                   sleepCount, submitted, batches, trace>>

\* A pool thread takes a queued work item.
TaskStart(t) ==
    /\ tasks[t].hpc = "queued"
    /\ WorkerFree
    /\ tasks' = [tasks EXCEPT ![t].hpc = "running"]
    /\ UNCHANGED <<helpers, inputs, pc, chunk_start, chunkNo, chunk, ti, futures, results, errors,
                   sleepCount, submitted, batches, trace>>

\* One iteration of `for f in as_completed(futures)`: f.result() returns the
\* handler's boolean, or raises what the handler raised (logged, nothing appended).
\* (CollectedResultsOnlyTrue is the faulty variant that keeps successes only.)
CollectedResultsOnlyTrue(res, rec) ==
    IF rec.hpc = "returned" /\ rec.ret THEN Append(res, rec.ret) ELSE res

\* (CollectedResultsRecordsFalse is the variant that records a raise as False.)
CollectedResultsRecordsFalse(res, rec) ==
    IF rec.hpc = "returned" THEN Append(res, rec.ret) ELSE Append(res, FALSE)

CollectedResults(res, rec) == IF rec.hpc = "returned" THEN Append(res, rec.ret) ELSE res

\* The future is done with once the loop body has taken its result.
Taken(rec) ==
    [NoTask EXCEPT !.hpc = "collected", !.handler = rec.handler, !.url = rec.url,
                   !.chunk = rec.chunk]

Collect(t) ==
    /\ pc = "collect"
    /\ \E k \in 1..Len(futures) : futures[k] = t
    /\ tasks[t].hpc \in {"returned", "raised"}
    /\ results' = CollectedResults(results, tasks[t])
    /\ errors' = IF tasks[t].hpc = "raised" THEN errors + 1 ELSE errors
    /\ tasks' = [tasks EXCEPT ![t] = Taken(@)]
    /\ UNCHANGED <<helpers, inputs, pc, chunk_start, chunkNo, chunk, ti, futures,
                   sleepCount, submitted, batches, trace>>

\* `return results`, after the `with` block has shut the pool down.
PTReturn ==
    /\ pc = "collect"
    /\ PTMayReturn
    /\ batches' = Append(batches, [targets |-> Len(chunk), submitted |-> Len(futures),
                                   raised |-> errors, outcomes |-> results])
    /\ pc' = IF entry = "main" THEN "sleep" ELSE "done"
    /\ UNCHANGED <<helpers, inputs, chunk_start, chunkNo, chunk, ti, futures, results, errors, tasks,
                   sleepCount, submitted, trace>>

(* -------------------------------- main -------------------------------- *)

\* The chunk loop takes its next chunk_start and calls process_targets.
MainNextChunk ==
    /\ pc = "main"
    /\ chunk_start < Len(targets)
    /\ chunk' = ChunkOf(targets, chunk_start, concurrency)
    /\ ti' = 1
    /\ futures' = <<>>
    /\ results' = <<>>
    /\ errors' = 0
    /\ pc' = "submit"
    /\ UNCHANGED <<helpers, inputs, chunk_start, chunkNo, tasks, sleepCount, submitted, batches, trace>>

\* (MainSleepSkipsLast is the variant that sleeps between chunks only.)
MainSleepSkipsLast ==
    /\ pc = "sleep"
    /\ sleepCount' = IF chunk_start + concurrency < Len(targets)
                     THEN sleepCount + 1
                     ELSE sleepCount
    /\ chunk_start' = chunk_start + concurrency
    /\ chunkNo' = chunkNo + 1
    /\ pc' = "main"
    /\ UNCHANGED <<helpers, inputs, chunk, ti, futures, results, errors, tasks, submitted, batches,
                   trace>>

\* time.sleep(random.uniform(2.0, 6.0)) returned; the range yields its next value.
MainSleep ==
    /\ pc = "sleep"
    /\ sleepCount' = sleepCount + 1
    /\ chunk_start' = chunk_start + concurrency
    /\ chunkNo' = chunkNo + 1
    /\ pc' = "main"
    /\ UNCHANGED <<helpers, inputs, chunk, ti, futures, results, errors, tasks, submitted, batches,
                   trace>>

MainDone ==
    /\ pc = "main"
    /\ chunk_start >= Len(targets)
    /\ pc' = "done"
    /\ UNCHANGED <<helpers, inputs, chunk_start, chunkNo, chunk, ti, futures, results, errors, tasks,
                   sleepCount, submitted, batches, trace>>

(* --------------------------- specifications --------------------------- *)

InitCommon ==
    /\ chunk_start = 0
    /\ chunkNo = 0
    /\ ti = 1
    /\ futures = <<>>
    /\ results = <<>>
    /\ errors = 0
    /\ trace = <<>>
    /\ sleepCount = 0
    /\ submitted = <<>>
    /\ batches = <<>>

NoBackoff == [base |-> 0, attempt |-> 0, jitter |-> 0, u |-> 0, slept |-> 0, done |-> FALSE]

\* No stand-alone helper call is under way.
InitHelpers ==
    /\ file = <<>>
    /\ backoff = NoBackoff

\* main() after parse_args, load_targets_from_file and create_session.
InitMain ==
    /\ entry = "main"
    /\ \E k \in 0..MaxTargets : targets = [i \in 1..k |-> i]
    /\ action \in Actions
    /\ concurrency \in 1..MaxConcurrency
    /\ dry_run \in BOOLEAN
    /\ pc = "main"
    /\ chunk = <<>>
    /\ tasks = [t \in 1..Len(targets) |-> NoTask]
    /\ InitCommon
    /\ InitHelpers

\* process_targets(session, targets, action, concurrency, dry_run) called directly.
InitProcessTargets ==
    /\ entry = "process_targets"
    /\ \E k \in 0..MaxPoolTargets : targets = [i \in 1..k |-> i]
    /\ action \in Actions \cup {"other"}
    /\ concurrency \in 1..MaxConcurrency
    /\ dry_run \in BOOLEAN
    /\ pc = "submit"
    /\ chunk = targets
    /\ tasks = [t \in 1..Len(targets) |-> NoTask]
    /\ InitCommon
    /\ InitHelpers

Init == InitMain \/ InitProcessTargets

Next ==
    \/ MainNextChunk
    \/ MainSleep
    \/ MainDone
    \/ Submit
    \/ SubmitEnd
    \/ PTReturn
    \/ \E t \in DOMAIN tasks : TaskStart(t)
    \/ \E t \in DOMAIN tasks : RunHandler(t)
    \/ \E t \in DOMAIN tasks : Attempt(t)
    \/ \E t \in DOMAIN tasks : Collect(t)

Spec == Init /\ [][Next]_vars

\* safe_request(session, method, url, max_attempts) called directly.
InitRequest ==
    /\ entry = "safe_request"
    /\ targets = <<>>
    /\ action = "like"
    /\ concurrency = 1
    /\ dry_run = FALSE
    /\ pc = "request"
    /\ chunk = <<>>
    /\ \E m \in 0..MaxAttempts :
          tasks = [t \in {1} |->
                    CallSafeRequest([NoTask EXCEPT !.hpc = "direct", !.handler = "direct",
                                                   !.url = 1], m)]
    /\ InitCommon
    /\ InitHelpers

NextRequest == \E t \in DOMAIN tasks : Attempt(t)

\* A blocked call returns: the request has a timeout and the sleep is finite.
RequestSpec == InitRequest /\ [][NextRequest]_vars /\ WF_vars(NextRequest)

\* Any of the three entry points above.
InitAny == Init \/ InitRequest

AnyEntrySpec == InitAny /\ [][Next]_vars

(* ---------------------- load_targets_from_file ------------------------ *)

\* Strings are sequences of characters: a blank, and a character that is none.
Chars == {" ", "a"}

\* str.strip() removes whitespace, the line terminator included.
IsSpace(c) == c \in {" ", "\n"}

\* What iterating the file handle yields for a line: its text and the terminator.
ReadLine(text) == Append(text, "\n")

RECURSIVE LStrip(_)
LStrip(s) == IF s # <<>> /\ IsSpace(Head(s)) THEN LStrip(Tail(s)) ELSE s

RECURSIVE RStrip(_)
RStrip(s) ==
    IF s # <<>> /\ IsSpace(s[Len(s)]) THEN RStrip(SubSeq(s, 1, Len(s) - 1)) ELSE s

\* l.strip()  (StripLeft is the faulty variant l.lstrip().)
StripLeft(s) == LStrip(s)

Strip(s) == RStrip(LStrip(s))

\* [l.strip() for l in fh if l.strip()]
RECURSIVE LoadTargets(_)
LoadTargets(lines) ==
    IF lines = <<>> THEN <<>>
    ELSE LET l == Strip(ReadLine(Head(lines)))
         IN  (IF l # <<>> THEN <<l>> ELSE <<>>) \o LoadTargets(Tail(lines))

LoadTargetsFromFile ==
    /\ pc = "load"
    /\ targets' = LoadTargets(file)
    /\ pc' = "loaded"
    /\ UNCHANGED <<entry, action, concurrency, dry_run, file, backoff, chunk_start, chunkNo,
                   chunk, ti, futures, results, errors, tasks, sleepCount, submitted,
                   batches, trace>>

Lines == UNION {[1..n -> Chars] : n \in 0..MaxLineLen}

\* load_targets_from_file(path) called on a file of at most MaxLines lines.
InitLoad ==
    /\ entry = "load_targets_from_file"
    /\ file \in UNION {[1..n -> Lines] : n \in 0..MaxLines}
    /\ backoff = NoBackoff
    /\ targets = <<>>
    /\ action = "like"
    /\ concurrency = 1
    /\ dry_run = FALSE
    /\ pc = "load"
    /\ chunk = <<>>
    /\ tasks = <<>>
    /\ InitCommon

NextLoad == LoadTargetsFromFile

LoadSpec == InitLoad /\ [][NextLoad]_vars

(* --------------------- exponential_backoff_sleep ---------------------- *)

\* base and jitter are counted in tenths, the random draw u in tenths, and a
\* jittered wait in hundredths of a second.
RECURSIVE Pow2(_)
Pow2(n) == IF n = 0 THEN 1 ELSE 2 * Pow2(n - 1)

\* wait = base * (2 ** attempt)
BackoffWait(base, attempt) == base * Pow2(attempt)

\* wait = wait * (1 + random.uniform(-jitter, jitter)), for the draw u
Jittered(wait, u) == wait * (10 + u)

\* time.sleep(max(0, wait))  (SleepForUnfloored is the faulty variant without max.)
SleepForUnfloored(wait) == wait

SleepFor(wait) == IF wait > 0 THEN wait ELSE 0

ExponentialBackoffSleep ==
    /\ pc = "backoff"
    /\ \E u \in (0 - backoff.jitter)..backoff.jitter :
          backoff' = [backoff EXCEPT
                        !.u = u,
                        !.slept = SleepFor(Jittered(BackoffWait(backoff.base,
                                                                backoff.attempt), u)),
                        !.done = TRUE]
    /\ pc' = "slept"
    /\ UNCHANGED <<inputs, chunk_start, chunkNo, chunk, ti, futures, results, errors, tasks,
                   sleepCount, submitted, batches, trace, file>>

\* exponential_backoff_sleep(base, attempt, jitter) called directly.
InitBackoff ==
    /\ entry = "exponential_backoff_sleep"
    /\ \E b \in 0..MaxBase, a \in 0..MaxBackoffAttempt, j \in 0..MaxJitter :
          backoff = [NoBackoff EXCEPT !.base = b, !.attempt = a, !.jitter = j]
    /\ file = <<>>
    /\ targets = <<>>
    /\ action = "like"
    /\ concurrency = 1
    /\ dry_run = FALSE
    /\ pc = "backoff"
    /\ chunk = <<>>
    /\ tasks = <<>>
    /\ InitCommon

NextBackoff == ExponentialBackoffSleep

BackoffSpec == InitBackoff /\ [][NextBackoff]_vars

(* ------------------- properties of safe_request ----------------------- *)

\* The directly called safe_request of RequestSpec.
Direct == {t \in DOMAIN tasks : tasks[t].handler = "direct"}

RateLimited(o) == o.kind = "response" /\ o.status \in {429, 420}

Answered(o) == o.kind = "response" /\ o.status \notin {429, 420}

Transport(o) == o.kind = "RequestException"

Unexpected(o) == o.kind \notin {"response", "RequestException"}

Failures == {i \in 1..Len(trace) : RateLimited(trace[i]) \/ Transport(trace[i])}

\* C1: if every attempt is answered with a rate-limit status (429 or 420),
\* safe_request never returns a response, makes one call per attempt, and ends
\* by returning None after exactly max_attempts calls.
C1_RateLimitedExhausts ==
    \A t \in Direct :
        (\A i \in 1..Len(trace) : RateLimited(trace[i])) =>
            /\ tasks[t].calls = Len(trace)
            /\ tasks[t].calls <= tasks[t].max_attempts
            /\ tasks[t].req \in {"attempting", "backing_off", "exhausted"}
            /\ tasks[t].req = "attempting" => tasks[t].calls < tasks[t].max_attempts
            /\ tasks[t].req = "exhausted" =>
                  /\ tasks[t].resp = None
                  /\ tasks[t].calls = tasks[t].max_attempts

C1_Witness ==
    \E t \in Direct :
        /\ tasks[t].req = "exhausted"
        /\ tasks[t].max_attempts = 3
        /\ Len(trace) = 3
        /\ \A i \in 1..3 : RateLimited(trace[i])
        /\ \E i, j \in 1..3 : trace[i].status = 429 /\ trace[j].status = 420

\* C2: if the first attempt is answered with a status other than 429 and 420,
\* safe_request has returned that response after one call, without sleeping.
C2_FirstAnswerReturned ==
    \A t \in Direct :
        (Len(trace) >= 1 /\ Answered(trace[1])) =>
            /\ tasks[t].req = "succeeded"
            /\ tasks[t].resp = trace[1].status
            /\ tasks[t].calls = 1
            /\ tasks[t].sleeps = 0
            /\ tasks[t].attempt = 0
            /\ Len(trace) = 1

C2_Witness ==
    \E t \in Direct :
        /\ tasks[t].req = "succeeded"
        /\ tasks[t].max_attempts = 5
        /\ tasks[t].calls = 1
        /\ trace = <<[kind |-> "response", status |-> 404]>>

\* C3: safe_request moves through attempting, backing-off, succeeded and
\* exhausted only: it makes at most max_attempts calls, rate-limit answers and
\* transport exceptions advance the one attempt counter, backing-off is entered
\* from attempting only, the terminal states are left no more, and whatever
\* responses, rate-limit answers and transport exceptions the attempts meet,
\* the call ends succeeded or exhausted (an exception that is no transport
\* exception, which is none of these outcomes, ends the call by leaving it).
C3_States ==
    \A t \in Direct :
        /\ tasks[t].req \in {"attempting", "backing_off", "succeeded", "exhausted", "raised"}
        /\ tasks[t].req = "raised" => \E i \in 1..Len(trace) : Unexpected(trace[i])
        /\ tasks[t].calls = Len(trace)
        /\ tasks[t].calls <= tasks[t].max_attempts
        /\ tasks[t].attempt =
              Cardinality(Failures) - (IF tasks[t].req = "backing_off" THEN 1 ELSE 0)
        /\ tasks[t].req = "attempting" => tasks[t].attempt < tasks[t].max_attempts
        /\ tasks[t].req = "exhausted" => tasks[t].attempt >= tasks[t].max_attempts

C3_Steps ==
    \A t \in Direct :
        /\ (tasks'[t].req = "backing_off" /\ tasks[t].req # "backing_off") =>
              tasks[t].req = "attempting"
        /\ tasks[t].req = "backing_off" => tasks'[t].req \in {"attempting", "exhausted"}
        /\ tasks[t].req \in {"succeeded", "exhausted"} => tasks'[t] = tasks[t]

C3_Ended ==
    \A t \in Direct :
        \/ tasks[t].req \in {"succeeded", "exhausted"}
        \/ \E i \in 1..Len(trace) : Unexpected(trace[i])

C3_StateMachine == []C3_States /\ [][C3_Steps]_vars /\ <>C3_Ended

C3_Witness ==
    \E t \in Direct :
        /\ tasks[t].req = "exhausted"
        /\ tasks[t].max_attempts = 4
        /\ \E i, j \in 1..Len(trace) : RateLimited(trace[i]) /\ Transport(trace[j])

\* C4: a transport exception is backed off from with base 1.0 and retried,
\* never raised to the caller: if every attempt fails with one, safe_request
\* returns None after max_attempts calls, and if transport exceptions are
\* followed by a response that is no rate-limit answer, that response is returned.
C4_TransportRetried ==
    \A t \in Direct :
        /\ (\A i \in 1..Len(trace) : ~Unexpected(trace[i])) => tasks[t].req # "raised"
        /\ (Len(trace) > 0 /\ Transport(trace[Len(trace)])) =>
              \/ /\ tasks[t].req = "backing_off"
                 /\ tasks[t].base = TransportBase
                 /\ tasks[t].battempt = Len(trace) - 1
                 /\ tasks[t].sleeps = Len(trace) - 1
              \/ /\ tasks[t].req \in {"attempting", "exhausted"}
                 /\ tasks[t].sleeps = Len(trace)
        /\ (\A i \in 1..Len(trace) : Transport(trace[i])) =>
              /\ tasks[t].req \in {"attempting", "backing_off", "exhausted"}
              /\ tasks[t].req = "attempting" => Len(trace) < tasks[t].max_attempts
              /\ tasks[t].req = "exhausted" =>
                    tasks[t].resp = None /\ tasks[t].calls = tasks[t].max_attempts
        /\ (/\ Len(trace) > 0
            /\ Answered(trace[Len(trace)])
            /\ \A i \in 1..(Len(trace) - 1) : Transport(trace[i])) =>
              /\ tasks[t].req = "succeeded"
              /\ tasks[t].resp = trace[Len(trace)].status
              /\ tasks[t].calls = Len(trace)

C4_Witness ==
    \E t \in Direct :
        /\ tasks[t].req = "succeeded"
        /\ tasks[t].resp = 200
        /\ Len(trace) = 3
        /\ Transport(trace[1]) /\ Transport(trace[2])

(* --------------- properties of the handlers and the pool -------------- *)

Handled == {t \in DOMAIN tasks : tasks[t].handler \in {"like_post", "follow_user"}}

\* C5: in dry-run mode a handler never enters safe_request, so it makes no
\* call to session.request, and it returns True for every target.
C5_DryRunNoCalls ==
    dry_run =>
        /\ \A t \in Handled :
              /\ tasks[t].req = "idle"
              /\ tasks[t].calls = 0
              /\ tasks[t].hpc \in {"queued", "running", "returned", "collected"}
              /\ tasks[t].hpc = "returned" => tasks[t].ret = TRUE
        /\ \A i \in 1..Len(results) : results[i] = TRUE
        /\ Len(trace) = 0

C5_Witness ==
    /\ dry_run
    /\ \E t \in Handled :
          /\ tasks[t].handler = "follow_user"
          /\ tasks[t].hpc = "returned"
          /\ tasks[t].url = 3

\* C6 as stated: outside dry-run a handler returns True exactly when the
\* executor returned a result whose status is in the 2xx class.
C6_Only2xx ==
    ~dry_run =>
        \A t \in Handled :
            tasks[t].hpc = "returned" =>
                (tasks[t].ret <=>
                    (tasks[t].resp # None /\ 200 <= tasks[t].resp /\ tasks[t].resp < 300))

\* C6 as amended: outside dry-run a handler returns True exactly when the
\* executor returned a result whose status is no 4xx or 5xx error status (which
\* is what requests' `ok` says: a 1xx or 3xx result also counts as success); it
\* returns False for a 4xx or 5xx status and when the executor returned None.
C6_OkStatus ==
    ~dry_run =>
        \A t \in Handled :
            tasks[t].hpc = "returned" =>
                /\ tasks[t].req \in {"succeeded", "exhausted"}
                /\ tasks[t].req = "exhausted" <=> tasks[t].resp = None
                /\ tasks[t].ret <=>
                      (tasks[t].resp # None /\ ~(400 <= tasks[t].resp /\ tasks[t].resp < 600))

C6_Witness ==
    /\ ~dry_run
    /\ \E t \in Handled :
          /\ tasks[t].hpc = "returned"
          /\ tasks[t].resp = 304
          /\ tasks[t].ret = TRUE

\* C7 as stated: no exception escapes a handler.
C7_NothingEscapes == \A t \in Handled : tasks[t].hpc # "raised"

\* C7 as amended: no requests.RequestException escapes a handler (it is backed
\* off from and ends as a boolean); an exception of any other kind raised by
\* the request call is not caught by safe_request nor by the handler and
\* leaves the handler, which then returns nothing.
C7_OnlyUnexpectedEscapes ==
    \A t \in Handled :
        /\ tasks[t].hpc = "raised" => (tasks[t].exc = "Other" /\ tasks[t].req = "raised")
        /\ tasks[t].exc # "none" => tasks[t].hpc = "raised"
        /\ tasks[t].hpc = "returned" => tasks[t].req \in {"idle", "succeeded", "exhausted"}

C7_Witness ==
    \E t \in Handled :
        /\ tasks[t].handler = "like_post"
        /\ tasks[t].hpc = "raised"
        /\ tasks[t].exc = "Other"

RECURSIVE TotalOutcomes(_)
TotalOutcomes(bs) ==
    IF bs = <<>> THEN 0 ELSE Len(bs[1].outcomes) + TotalOutcomes(Tail(bs))

RECURSIVE TotalRaised(_)
TotalRaised(bs) == IF bs = <<>> THEN 0 ELSE bs[1].raised + TotalRaised(Tail(bs))

\* C8: with the action like or follow, a process_targets call whose tasks
\* raised nothing returns one outcome per target it was given, whatever the
\* order the tasks completed in, and a whole run of main in which no task
\* raised has produced len(targets) outcomes; in dry-run no task raises and
\* every outcome is True.
C8_OneOutcomePerTarget ==
    action \in Actions =>
        /\ \A i \in 1..Len(batches) :
              /\ batches[i].raised = 0 => Len(batches[i].outcomes) = batches[i].targets
              /\ dry_run =>
                    /\ batches[i].raised = 0
                    /\ \A j \in 1..Len(batches[i].outcomes) : batches[i].outcomes[j] = TRUE
        /\ (pc = "done" /\ TotalRaised(batches) = 0) =>
              TotalOutcomes(batches) = Len(targets)

C8_Witness ==
    /\ entry = "main"
    /\ ~dry_run
    /\ pc = "done"
    /\ Len(targets) = 3
    /\ concurrency = 2
    /\ Len(batches) = 2
    /\ TotalRaised(batches) = 0
    /\ batches[1].outcomes = <<FALSE, TRUE>>

\* The chunk of main the target at position t belongs to.
ChunkIndex(t) == (t - 1) \div concurrency

\* C9: in a run of main, whenever a task of a chunk has been submitted, every
\* task of every earlier chunk has completed and been collected, and the
\* sleeps that follow the earlier chunks have all finished.
C9_ChunksSequential ==
    entry = "main" =>
        \A t \in DOMAIN tasks :
            tasks[t].hpc # "unsubmitted" =>
                /\ tasks[t].chunk = ChunkIndex(t)
                /\ sleepCount >= ChunkIndex(t)
                /\ \A s \in DOMAIN tasks :
                      ChunkIndex(s) < ChunkIndex(t) => tasks[s].hpc = "collected"

C9_Witness ==
    /\ entry = "main"
    /\ concurrency = 2
    /\ sleepCount = 1
    /\ \E t \in DOMAIN tasks : ChunkIndex(t) = 1 /\ tasks[t].req = "backing_off"

\* C10: the handlers executing at any moment are at most `concurrency` many
\* and were all submitted by the same process_targets call (the same chunk).
C10_PoolBound ==
    /\ Cardinality(Running) <= concurrency
    /\ \A s, t \in Running : tasks[s].chunk = tasks[t].chunk

C10_Witness ==
    /\ Cardinality(Running) = concurrency
    /\ \E t \in DOMAIN tasks : tasks[t].hpc = "queued"
    /\ \E t \in Running : tasks[t].req = "backing_off"

(* ------------------- properties of the chunk loop --------------------- *)

\* ceil(k / c)
CeilDiv(k, c) == (k + c - 1) \div c

RECURSIVE TotalTargets(_)
TotalTargets(bs) == IF bs = <<>> THEN 0 ELSE bs[1].targets + TotalTargets(Tail(bs))

\* C11: main cuts the target list into contiguous chunks of `concurrency`
\* targets, the last one possibly shorter and none empty; the targets handed
\* to a handler so far are, in order, a prefix of the target list without
\* repetition, and when the run is done they are the whole list, each target
\* submitted exactly once.
C11_ChunksPartitionTargets ==
    entry = "main" =>
        /\ submitted = SubSeq(targets, 1, Len(submitted))
        /\ Len(submitted) <= Len(targets)
        /\ \A i \in 1..Len(batches) :
              /\ batches[i].targets >= 1
              /\ batches[i].targets =
                    (IF i * concurrency <= Len(targets)
                     THEN concurrency
                     ELSE Len(targets) - (i - 1) * concurrency)
              /\ batches[i].submitted = batches[i].targets
        /\ pc \in {"submit", "collect", "sleep"} =>
              /\ Len(chunk) >= 1
              /\ Len(chunk) <= concurrency
              /\ \A k \in 1..Len(chunk) : chunk[k] = targets[chunkNo * concurrency + k]
              /\ TotalTargets(batches) + (IF pc = "sleep" THEN 0 ELSE Len(chunk))
                    = Min((chunkNo + 1) * concurrency, Len(targets))
        /\ pc = "done" =>
              /\ submitted = targets
              /\ TotalTargets(batches) = Len(targets)
              /\ Len(batches) = CeilDiv(Len(targets), concurrency)
              /\ \A t \in DOMAIN tasks : tasks[t].hpc = "collected" /\ tasks[t].url = targets[t]

C11_Witness ==
    /\ entry = "main"
    /\ pc = "done"
    /\ concurrency = 2
    /\ submitted = <<1, 2, 3>>
    /\ Len(batches) = 2
    /\ batches[1].targets = 2
    /\ batches[2].targets = 1

(* ------------------ properties of the outcomes list ------------------- *)

\* The futures of the current process_targets call the loop body has taken.
CollectedNow == {k \in 1..Len(futures) : tasks[futures[k]].hpc = "collected"}

\* C12: an exception raised by a task is caught in process_targets and adds
\* no entry to the outcomes list (it is not recorded as False), the results of
\* the other tasks are still collected and the call still returns: the
\* outcomes are as many as the submitted tasks less the tasks that raised.
C12_RaisedTaskOmitted ==
    /\ \A i \in 1..Len(batches) :
          Len(batches[i].outcomes) = batches[i].submitted - batches[i].raised
    /\ pc = "collect" => Len(results) + errors = Cardinality(CollectedNow)
    /\ \A t \in Handled : tasks[t].hpc = "raised" => pc \in {"submit", "collect"}

C12_Witness ==
    /\ pc = "done"
    /\ Len(batches) = 1
    /\ batches[1].submitted = 2
    /\ batches[1].raised = 1
    /\ batches[1].outcomes = <<FALSE>>

\* C13 as stated: whenever process_targets has returned, its outcomes list is
\* as long as the number of tasks it submitted.
C13_OutcomesMatchSubmitted ==
    \A i \in 1..Len(batches) : Len(batches[i].outcomes) = batches[i].submitted

(* ------------------ properties of the pure helpers -------------------- *)

\* The lines of the file that hold a character that is no whitespace.
NonBlank == {i \in 1..Len(file) : \E k \in 1..Len(file[i]) : file[i][k] # " "}

\* The j-th of them, in file order.
NthNonBlank(j) == CHOOSE i \in NonBlank : Cardinality({m \in NonBlank : m <= i}) = j

\* e is line l without its leading and trailing blanks.
IsStripOf(e, l) ==
    /\ e # <<>>
    /\ e[1] # " " /\ e[1] # "\n"
    /\ e[Len(e)] # " " /\ e[Len(e)] # "\n"
    /\ \E a \in 0..Len(l) :
          /\ a + Len(e) <= Len(l)
          /\ e = SubSeq(l, a + 1, a + Len(e))
          /\ \A k \in 1..a : l[k] = " "
          /\ \A k \in (a + Len(e) + 1)..Len(l) : l[k] = " "

\* C14: the loaded list has one entry per line that is non-blank after
\* stripping, in file order, each the line without its surrounding whitespace;
\* blank and whitespace-only lines give no entry.
C14_LoadedTargets ==
    pc = "loaded" =>
        /\ Len(targets) = Cardinality(NonBlank)
        /\ \A j \in 1..Len(targets) : IsStripOf(targets[j], file[NthNonBlank(j)])

C14_Witness ==
    /\ pc = "loaded"
    /\ file = << <<" ", " ">>, <<" ", "a", " ">> >>
    /\ targets = << <<"a">> >>

\* C15: for a base delay and a jitter fraction that are not negative and every
\* attempt index, the time slept lies in [0, base * 2^attempt * (1 + jitter)];
\* it is 0 whenever the jittered wait is negative and the jittered wait itself
\* otherwise (base and jitter in tenths, the wait in hundredths).
C15_BackoffRange ==
    backoff.done =>
        LET jittered == backoff.base * (2 ^ backoff.attempt) * (10 + backoff.u)
        IN  /\ backoff.slept >= 0
            /\ backoff.slept <= backoff.base * (2 ^ backoff.attempt) * (10 + backoff.jitter)
            /\ jittered < 0 => backoff.slept = 0
            /\ jittered >= 0 => backoff.slept = jittered

C15_Witness ==
    /\ backoff.done
    /\ backoff.base = 10
    /\ backoff.attempt = 3
    /\ backoff.jitter = 12
    /\ backoff.u = 0 - 11
    /\ backoff.slept = 0

(* --------------- further properties of safe_request ------------------- *)

\* C16: while safe_request backs off after its i-th attempt failed (i counted
\* from 0 over rate-limit answers and transport exceptions alike), the sleep
\* was called with attempt index i and with base 2.0 after a rate-limit answer,
\* 1.0 after a transport exception; the attempt counter changes only when a
\* sleep ends, and then by exactly 1.
C16_BackingOff ==
    \A t \in Direct :
        tasks[t].req = "backing_off" =>
            /\ Len(trace) >= 1
            /\ \A i \in 1..Len(trace) : RateLimited(trace[i]) \/ Transport(trace[i])
            /\ tasks[t].battempt = Len(trace) - 1
            /\ tasks[t].attempt = Len(trace) - 1
            /\ tasks[t].base = (IF RateLimited(trace[Len(trace)]) THEN 20 ELSE 10)

C16_CounterSteps ==
    \A t \in Direct :
        /\ tasks'[t].attempt # tasks[t].attempt =>
              /\ tasks[t].req = "backing_off"
              /\ tasks'[t].req # "backing_off"
              /\ tasks'[t].attempt = tasks[t].attempt + 1
              /\ tasks'[t].sleeps = tasks[t].sleeps + 1
              /\ trace' = trace
        /\ tasks[t].req = "backing_off" => tasks'[t].attempt = tasks[t].attempt + 1

C16_BackoffSchedule == []C16_BackingOff /\ [][C16_CounterSteps]_vars

C16_Witness ==
    \E t \in Direct :
        /\ tasks[t].req = "backing_off"
        /\ tasks[t].battempt = 2
        /\ tasks[t].base = 20
        /\ Transport(trace[1])
        /\ Transport(trace[2])

\* C17: a response whose status is neither 429 nor 420, a non-ok one such as
\* 404 included, ends safe_request at the attempt that received it: it is the
\* last call made and it is what safe_request returns.  A handler whose
\* executor returned a 4xx/5xx status or None returns False and does not raise.
C17_PermanentFailure ==
    /\ \A t \in Direct :
          \A i \in 1..Len(trace) :
              Answered(trace[i]) =>
                  /\ i = Len(trace)
                  /\ tasks[t].req = "succeeded"
                  /\ tasks[t].resp = trace[i].status
                  /\ tasks[t].calls = i
                  /\ tasks[t].sleeps = i - 1
    /\ \A t \in Handled :
          /\ tasks[t].req = "exhausted" => tasks[t].resp = None
          /\ tasks[t].req \in {"succeeded", "exhausted"} =>
                /\ tasks[t].hpc = "returned"
                /\ tasks[t].exc = "none"
                /\ (tasks[t].resp = None \/ (400 <= tasks[t].resp /\ tasks[t].resp < 600)) =>
                      tasks[t].ret = FALSE

C17_Witness ==
    \E t \in Direct :
        /\ tasks[t].req = "succeeded"
        /\ tasks[t].resp = 404
        /\ tasks[t].max_attempts = 5
        /\ Len(trace) = 3

C18_SleepPerFailure ==
    \A t \in Direct :
        /\ tasks[t].sleeps =
              Cardinality(Failures) - (IF tasks[t].req = "backing_off" THEN 1 ELSE 0)
        /\ tasks[t].req = "backing_off" =>
              Len(trace) \in Failures /\ tasks[t].calls <= tasks[t].max_attempts
        /\ tasks[t].req = "exhausted" =>
              /\ Cardinality(Failures) = Len(trace)
              /\ tasks[t].calls = Len(trace)
              /\ tasks[t].sleeps = tasks[t].calls
              /\ tasks[t].max_attempts >= 0 => tasks[t].sleeps = tasks[t].max_attempts

C18_FinalSleep ==
    \A t \in Direct :
        /\ (tasks[t].req # "exhausted" /\ tasks'[t].req = "exhausted") =>
              /\ tasks[t].req = "backing_off"
              /\ tasks'[t].sleeps = tasks[t].sleeps + 1
              /\ tasks'[t].calls = tasks[t].calls
              /\ trace' = trace
        /\ tasks[t].req = "exhausted" => (tasks'[t] = tasks[t] /\ trace' = trace)

\* C18: safe_request sleeps after every failed attempt (rate limit or transport
\* exception), the last one included: the sleeps completed equal the failed
\* attempts, max_attempts of each once exhausted, and the step into the
\* exhausted state is the return of a backoff sleep, with no request after it.
C18_SleepAfterEveryFailure == []C18_SleepPerFailure /\ [][C18_FinalSleep]_vars

C18_Witness ==
    \E t \in Direct :
        /\ tasks[t].req = "exhausted"
        /\ tasks[t].max_attempts = 3
        /\ tasks[t].sleeps = 3
        /\ tasks[t].calls = 3
        /\ \E i \in 1..Len(trace) : Transport(trace[i])

(* ------------------------ inter-chunk sleeps -------------------------- *)

C19_SleepPerChunk ==
    entry = "main" =>
        /\ sleepCount = chunkNo
        /\ pc \in {"main", "submit", "collect", "done"} => Len(batches) = sleepCount
        /\ pc = "sleep" => Len(batches) = sleepCount + 1
        /\ pc = "done" =>
              /\ sleepCount = CeilDiv(Len(targets), concurrency)
              /\ Len(batches) = CeilDiv(Len(targets), concurrency)
              /\ chunk_start >= Len(targets)
        /\ Len(targets) = 0 => (sleepCount = 0 /\ batches = <<>> /\ pc \in {"main", "done"})

C19_SleepThenDone ==
    entry = "main" =>
        /\ sleepCount' # sleepCount =>
              /\ pc = "sleep"
              /\ sleepCount' = sleepCount + 1
              /\ pc' = "main"
              /\ batches' = batches
        /\ (pc # "done" /\ pc' = "done") =>
              /\ pc = "main"
              /\ sleepCount = Len(batches)
              /\ UNCHANGED <<sleepCount, batches, submitted, tasks>>
        /\ pc = "done" => UNCHANGED <<pc, sleepCount, batches, submitted, tasks>>

\* C19: main sleeps once after every chunk, the final chunk included: the
\* sleeps equal the chunks processed, ceil(K / C) of each when the run is done;
\* the run ends from the loop head reached by the last sleep, with no chunk
\* after it; with no targets there is neither a chunk nor a sleep.
C19_SleepAfterEveryChunk == []C19_SleepPerChunk /\ [][C19_SleepThenDone]_vars

C19_Witness ==
    /\ entry = "main"
    /\ pc = "done"
    /\ Len(targets) = 3
    /\ concurrency = 2
    /\ sleepCount = 2
    /\ Len(batches) = 2

(* ------------------------ unknown action names ------------------------ *)

\* C20: process_targets called with an action other than "like" or "follow"
\* submits no task for any target, makes no network call, raises nothing and
\* returns an empty outcomes list, whatever the number of targets.
C20_UnknownActionNoop ==
    (entry = "process_targets" /\ action \notin {"like", "follow"}) =>
        /\ futures = <<>>
        /\ submitted = <<>>
        /\ results = <<>>
        /\ errors = 0
        /\ \A t \in DOMAIN tasks : tasks[t] = NoTask
        /\ pc \in {"submit", "collect", "done"}
        /\ pc = "done" <=> Len(batches) = 1
        /\ \A i \in 1..Len(batches) :
              /\ batches[i].targets = Len(targets)
              /\ batches[i].submitted = 0
              /\ batches[i].raised = 0
              /\ batches[i].outcomes = <<>>

C20_Witness ==
    /\ entry = "process_targets"
    /\ action = "other"
    /\ Len(targets) = 2
    /\ pc = "done"
    /\ Len(batches) = 1
    /\ batches[1].outcomes = <<>>

====
